---- MODULE Spec2Model ----
(***************************************************************************)
(* Pixshop: the App component (history of image files with undo/redo, the  *)
(* busy/error state around the editing operations) and the response       *)
(* validation of the Gemini service module.                                *)
(*                                                                         *)
(* React state is modelled one variable per useState cell.  A handler runs *)
(* to its first await (or to its end) inside one browser event and React   *)
(* re-renders before the next event is dispatched, so a handler and the    *)
(* render that follows it are one action; the part of an async handler     *)
(* after its await is a second action, which reads the values its closure  *)
(* captured when the handler was invoked.                                  *)
(***************************************************************************)
EXTENDS Integers, Sequences, FiniteSets, TLC

(* ---- bounds of the model ---- *)

\* File objects that can exist in one run (each upload or edit creates one).
MaxFiles == 3
\* Cap on simultaneously outstanding operations (the claim is that 1 is never exceeded).
MaxInflight == 2

(* ---- optional values: null / undefined is <<>>, a value v is <<v>> ---- *)

Null == <<>>
Some(v) == <<v>>

(* ---- strings that the code trims are sequences of characters ---- *)

IsSpace(c) == c = " "

RECURSIVE TrimLeft(_)
TrimLeft(s) == IF s # <<>> /\ IsSpace(Head(s)) THEN TrimLeft(Tail(s)) ELSE s

RECURSIVE TrimRight(_)
TrimRight(s) ==
    IF s # <<>> /\ IsSpace(s[Len(s)]) THEN TrimRight(SubSeq(s, 1, Len(s) - 1)) ELSE s

\* String.prototype.trim
Trim(s) == TrimRight(TrimLeft(s))

\* Array.prototype.slice(0, end): a negative end counts from the end of the array.
Slice0(arr, end) ==
    LET e == IF end < 0 THEN (IF Len(arr) + end < 0 THEN 0 ELSE Len(arr) + end)
             ELSE (IF end > Len(arr) THEN Len(arr) ELSE end)
    IN  SubSeq(arr, 1, e)

(* ---- the App component's state ---- *)

VARIABLES
    history,        \* File[]: the artifacts, oldest first (sequence of file ids)
    historyIndex,   \* index into history (0-based as in the code), -1 when empty
    prompt,         \* the retouch prompt (sequence of characters)
    isLoading,      \* the busy flag
    error,          \* Null or Some(message)
    editHotspot,    \* Null or Some(point in natural image coordinates)
    displayHotspot, \* Null or Some(point in display coordinates)
    activeTab,      \* the selected tab
    toast,          \* Null or Some(message)
    extractedText,  \* cached OCR text (sequence of characters)
    faces,          \* cached face list
    crop,           \* Null or Some(selection being dragged)
    completedCrop,  \* Null or Some(completed selection)
    inflight,       \* the async handlers suspended at their await, each with its closure
    nextFile,       \* identity of the next File object to be created
    apiResponse,    \* response validator: the response being validated (Null: none)
    apiContext,     \* response validator: the context label
    apiResult,      \* response validator: Null or Some(result of handleApiResponse)
    facesResponse,  \* face detection: the model's answer being parsed (Null: none)
    facesResult,    \* face detection: Null or Some(result of detectFaces)
    objectUrls,     \* the object URLs created and not yet revoked, by the effect that made them
    mounted,        \* the App component is mounted
    now,            \* Toast: the clock, in milliseconds
    toastKey,       \* Toast: Null or Some(key of the toast shown), the key being Date.now()
    isVisible,      \* Toast: the component's isVisible cell
    timers,         \* Toast: the timeouts set and neither fired nor cleared
    shows,          \* Toast: the number of showToast calls so far
    renders,        \* Toast: the number of other App renders so far with a toast shown
    show,           \* ExportModal: the show prop (App's isExportModalOpen)
    format,         \* ExportModal: the export format
    quality,        \* ExportModal: the quality, in percent
    downloadUrl,    \* ExportModal: Null or Some(object URL of the encoded blob)
    estimatedSize,  \* ExportModal: "", "size" (a formatted size) or "Error"
    isProcessing,   \* ExportModal: a preview is being generated
    debounce,       \* ExportModal: Null or Some(closure of the pending debounce timeout)
    effectCleanup,  \* ExportModal: the cleanup returned by the last run of the effect
    previews,       \* ExportModal: the generatePreview runs waiting for a callback
    liveUrls,       \* ExportModal: the object URLs created and not revoked
    nextUrl         \* ExportModal: identity of the next object URL

appVars == <<history, historyIndex, prompt, isLoading, error, editHotspot, displayHotspot,
             activeTab, toast, extractedText, faces, crop, completedCrop>>
apiVars == <<apiResponse, apiContext, apiResult, facesResponse, facesResult>>
lifeVars == <<objectUrls, mounted>>
toastVars == <<now, toastKey, isVisible, timers, shows, renders>>
exportVars == <<show, format, quality, downloadUrl, estimatedSize, isProcessing, debounce,
                effectCleanup, previews, liveUrls, nextUrl>>
widgetVars == <<toastVars, exportVars>>
sideVars == <<apiVars, widgetVars>>
vars == <<appVars, inflight, nextFile, apiVars, lifeVars, widgetVars>>

\* The state cells of App as one record: the handlers below are functions on it.
App ==
    [history |-> history, historyIndex |-> historyIndex, prompt |-> prompt,
     isLoading |-> isLoading, error |-> error, editHotspot |-> editHotspot,
     displayHotspot |-> displayHotspot, activeTab |-> activeTab, toast |-> toast,
     extractedText |-> extractedText, faces |-> faces, crop |-> crop,
     completedCrop |-> completedCrop]

(* ---- values derived in render ---- *)

\* history[historyIndex] ?? null
currentImage(s) ==
    IF s.historyIndex >= 0 /\ s.historyIndex < Len(s.history)
    THEN Some(s.history[s.historyIndex + 1]) ELSE Null

\* history[0] ?? null
originalImage(s) == IF Len(s.history) > 0 THEN Some(s.history[1]) ELSE Null

canUndo(s) == s.historyIndex > 0

canRedo(s) == s.historyIndex < Len(s.history) - 1

(* ---- the effects that keep an object URL for the current and the original image ---- *)
(* The URLs a slot has created and not revoked are the sequence of the files *)
(* they were created for, in the order of their creation.                    *)

\* URL.revokeObjectURL(url), url being the one the effect created for file
revokeObjectURL(live, file) ==
    IF \E i \in 1..Len(live) : live[i] = file
    THEN LET i == CHOOSE k \in 1..Len(live) :
                      live[k] = file /\ \A j \in 1..(k - 1) : live[j] # file
         IN  SubSeq(live, 1, i - 1) \o SubSeq(live, i + 1, Len(live))
    ELSE live

\* the effect returns no cleanup function
ObjectUrlEffect_NoCleanup(live, before, after) ==
    IF before = after THEN live
    ELSE IF after # Null THEN Append(live, after[1]) ELSE live

\* useEffect(..., [image]) after a render in which image went from before to after:
\* React runs the cleanup of the previous run, then the effect
ObjectUrlEffect(live, before, after) ==
    IF before = after THEN live
    ELSE LET cleaned == IF before # Null THEN revokeObjectURL(live, before[1]) ELSE live
         IN  IF after # Null THEN Append(cleaned, after[1]) ELSE cleaned

\* the cleanup functions run when the component is unmounted
ObjectUrlCleanup(live, image) ==
    IF image # Null THEN revokeObjectURL(live, image[1]) ELSE live

\* The state cells take the values of record s (the render after the handler's setState
\* calls), and the effects whose dependency changed run.
Commit(s) ==
    /\ objectUrls' =
          [current |-> ObjectUrlEffect(objectUrls.current, currentImage(App), currentImage(s)),
           original |-> ObjectUrlEffect(objectUrls.original, originalImage(App),
                                        originalImage(s))]
    /\ mounted' = mounted
    /\ history' = s.history
    /\ historyIndex' = s.historyIndex
    /\ prompt' = s.prompt
    /\ isLoading' = s.isLoading
    /\ error' = s.error
    /\ editHotspot' = s.editHotspot
    /\ displayHotspot' = s.displayHotspot
    /\ activeTab' = s.activeTab
    /\ toast' = s.toast
    /\ extractedText' = s.extractedText
    /\ faces' = s.faces
    /\ crop' = s.crop
    /\ completedCrop' = s.completedCrop

Tabs == {"retouch", "adjust", "filters", "crop", "resize", "extract-text",
         "face-detection", "background"}

InitialApp ==
    [history |-> <<>>, historyIndex |-> -1, prompt |-> <<>>, isLoading |-> FALSE,
     error |-> Null, editHotspot |-> Null, displayHotspot |-> Null,
     activeTab |-> "retouch", toast |-> Null, extractedText |-> <<>>, faces |-> <<>>,
     crop |-> Null, completedCrop |-> Null]

(* ---- history handlers ---- *)

showToast(s, message) == [s EXCEPT !.toast = Some(message)]

\* setHistoryIndex(newHistory.length)
addImageToHistory_IndexPastEnd(s, cl, newImageFile) ==
    LET newHistory == Slice0(cl.history, cl.historyIndex + 1) \o <<newImageFile>>
    IN  [s EXCEPT !.history = newHistory, !.historyIndex = Len(newHistory),
                  !.crop = Null, !.completedCrop = Null,
                  !.extractedText = <<>>, !.faces = <<>>]

\* [...history, newImageFile]: the entries after the position are kept
addImageToHistory_KeepsRedo(s, cl, newImageFile) ==
    LET newHistory == cl.history \o <<newImageFile>>
    IN  [s EXCEPT !.history = newHistory, !.historyIndex = Len(newHistory) - 1,
                  !.crop = Null, !.completedCrop = Null,
                  !.extractedText = <<>>, !.faces = <<>>]

\* the new entry is inserted after the position and the position stays
addImageToHistory_IndexNotAdvanced(s, cl, newImageFile) ==
    LET newHistory == Slice0(cl.history, cl.historyIndex + 1) \o <<newImageFile>>
    IN  [s EXCEPT !.history = newHistory, !.historyIndex = cl.historyIndex,
                  !.crop = Null, !.completedCrop = Null,
                  !.extractedText = <<>>, !.faces = <<>>]

\* history.slice(historyIndex): the entries before the position are dropped
addImageToHistory_SliceFromIndex(s, cl, newImageFile) ==
    LET newHistory == SubSeq(cl.history, cl.historyIndex + 1, Len(cl.history))
                      \o <<newImageFile>>
    IN  [s EXCEPT !.history = newHistory, !.historyIndex = Len(newHistory) - 1,
                  !.crop = Null, !.completedCrop = Null,
                  !.extractedText = <<>>, !.faces = <<>>]

\* cl is the closure of the useCallback: the history and historyIndex of the render
\* in which the calling handler was created.
addImageToHistory(s, cl, newImageFile) ==
    LET newHistory == Slice0(cl.history, cl.historyIndex + 1) \o <<newImageFile>>
    IN  [s EXCEPT !.history = newHistory,
                  !.historyIndex = Len(newHistory) - 1,
                  !.crop = Null,
                  !.completedCrop = Null,
                  !.extractedText = <<>>,
                  !.faces = <<>>]

\* the OCR text and the face list of the previous image are kept
handleImageUpload_KeepsCaches(s, file) ==
    [s EXCEPT !.error = Null, !.history = <<file>>, !.historyIndex = 0,
              !.editHotspot = Null, !.displayHotspot = Null, !.activeTab = "retouch",
              !.crop = Null, !.completedCrop = Null]

handleImageUpload(s, file) ==
    [s EXCEPT !.error = Null,
              !.history = <<file>>,
              !.historyIndex = 0,
              !.editHotspot = Null,
              !.displayHotspot = Null,
              !.activeTab = "retouch",
              !.crop = Null,
              !.completedCrop = Null,
              !.extractedText = <<>>,
              !.faces = <<>>]

\* no check of canUndo
handleUndo_Unguarded(s) ==
    [showToast(s, "Undo successful") EXCEPT !.historyIndex = @ - 1,
                                            !.extractedText = <<>>,
                                            !.faces = <<>>]

\* undo pops the entries after the new position
handleUndo_DropsRedo(s) ==
    IF canUndo(s)
    THEN [showToast(s, "Undo successful") EXCEPT !.history = Slice0(@, s.historyIndex),
                                                 !.historyIndex = @ - 1,
                                                 !.extractedText = <<>>,
                                                 !.faces = <<>>]
    ELSE s

handleUndo(s) ==
    IF canUndo(s)
    THEN [showToast(s, "Undo successful") EXCEPT !.historyIndex = @ - 1,
                                                 !.extractedText = <<>>,
                                                 !.faces = <<>>]
    ELSE s

\* the OCR text and the face list are kept across a redo
handleRedo_KeepsCaches(s) ==
    IF canRedo(s)
    THEN [showToast(s, "Redo successful") EXCEPT !.historyIndex = @ + 1]
    ELSE s

handleRedo(s) ==
    IF canRedo(s)
    THEN [showToast(s, "Redo successful") EXCEPT !.historyIndex = @ + 1,
                                                 !.extractedText = <<>>,
                                                 !.faces = <<>>]
    ELSE s

(* The same two handlers with the render they were created in told apart *)
(* from the state their updates are applied to: canUndo and canRedo are    *)
(* those of render r, while prev => prev - 1 and prev => prev + 1 act on   *)
(* the pending state s.  handleUndo(s) is handleUndoInRender(s, s).        *)

handleUndoInRender(r, s) ==
    IF canUndo(r)
    THEN [showToast(s, "Undo successful") EXCEPT !.historyIndex = @ - 1,
                                                 !.extractedText = <<>>,
                                                 !.faces = <<>>]
    ELSE s

handleRedoInRender(r, s) ==
    IF canRedo(r)
    THEN [showToast(s, "Redo successful") EXCEPT !.historyIndex = @ + 1,
                                                 !.extractedText = <<>>,
                                                 !.faces = <<>>]
    ELSE s

(* ---- results of functions that return or throw ---- *)

Ok(v) == [ok |-> TRUE, value |-> v, error |-> <<>>]

\* a thrown Error; message is a sequence of string tokens
Err(message) == [ok |-> FALSE, value |-> <<>>, error |-> message]

(* ---- data URLs: sequences of tokens; the delimiters are tokens of their own ---- *)

\* the text a template literal contributes for string x (nothing for '')
Tok(x) == IF x = "" THEN <<>> ELSE <<x>>

\* `data:${mimeType};base64,${data}`
DataUrl(mimeType, data) ==
    <<"data", ":">> \o Tok(mimeType) \o <<";", "base64", ",">> \o Tok(data)

\* what canvas.toDataURL returns for a canvas it cannot encode
EmptyCanvasUrl == <<"data", ":", ",">>

\* payload tokens that are valid base64
Base64Tokens == {"QUJD"}

\* String.prototype.split(sep)
RECURSIVE Split(_, _)
Split(s, sep) ==
    IF \E i \in 1..Len(s) : s[i] = sep
    THEN LET i == CHOOSE k \in 1..Len(s) : s[k] = sep /\ \A j \in 1..(k - 1) : s[j] # sep
         IN  <<SubSeq(s, 1, i - 1)>> \o Split(SubSeq(s, i + 1, Len(s)), sep)
    ELSE <<s>>

\* position of the first tok in s at or after from, 0 when there is none
FirstAt(s, tok, from) ==
    IF \E i \in from..Len(s) : s[i] = tok
    THEN CHOOSE i \in from..Len(s) : s[i] = tok /\ \A j \in from..(i - 1) : s[j] # tok
    ELSE 0

\* s.match(/:(.*?);/): Null, or Some(group 1)
MimeMatch(s) ==
    LET c == FirstAt(s, ":", 1)
        e == IF c = 0 THEN 0 ELSE FirstAt(s, ";", c + 1)
    IN  IF e = 0 THEN Null ELSE Some(SubSeq(s, c + 1, e - 1))

\* atob(s) throws unless s is base64
AtobThrows(s) == \E i \in 1..Len(s) : s[i] \notin Base64Tokens

\* Returns the MIME type of the File it builds, or throws.
dataURLtoFile(dataurl) ==
    LET arr == Split(dataurl, ",")
    IN  IF Len(arr) < 2 THEN Err(<<"Invalid data URL">>)
        ELSE LET mimeMatch == MimeMatch(arr[1])
             IN  IF mimeMatch = Null \/ mimeMatch[1] = <<>>
                 THEN Err(<<"Could not parse MIME type from data URL">>)
                 ELSE IF AtobThrows(arr[2])
                 THEN Err(<<"InvalidCharacterError">>)
                 ELSE Ok(mimeMatch[1])

(* ---- responses of the generative service ---- *)

TextPart(t) == [inlineData |-> Null, text |-> Some(t)]
ImagePart(mimeType, data) ==
    [inlineData |-> Some([mimeType |-> mimeType, data |-> data]), text |-> Null]

\* the parts a candidate's content can carry
PartsChoices ==
    { <<>>,
      <<TextPart(<<" ", "n", "o", " ">>)>>,
      <<TextPart(<<" ">>)>>,
      <<ImagePart("image/png", "QUJD")>>,
      <<TextPart(<<" ", "n", "o", " ">>), ImagePart("image/png", "QUJD")>>,
      <<ImagePart("", "QUJD")>>,
      <<ImagePart("image/png", "@@")>> }

FinishReasons == {Null, Some("STOP"), Some("SAFETY")}

Candidates ==
    {<<>>} \cup {<<[finishReason |-> f, parts |-> p]>> : f \in FinishReasons, p \in PartsChoices}

PromptFeedbacks ==
    { [blockReason |-> Null, blockReasonMessage |-> Null],
      [blockReason |-> Some("SAFETY"), blockReasonMessage |-> Null],
      [blockReason |-> Some("OTHER"), blockReasonMessage |-> Some("blocked by policy")] }

Responses == [promptFeedback : PromptFeedbacks, candidates : Candidates]

Contexts == {"edit", "filter", "adjustment", "enhancement", "background removal"}

\* response.candidates?.[0]?.content?.parts, [] when absent
FirstParts(response) ==
    IF response.candidates = <<>> THEN <<>> ELSE response.candidates[1].parts

\* parts.find(part => part.inlineData): Null, or Some(the first such part)
FindImagePart(parts) ==
    IF \E i \in 1..Len(parts) : parts[i].inlineData # Null
    THEN Some(parts[CHOOSE i \in 1..Len(parts) :
                        /\ parts[i].inlineData # Null
                        /\ \A j \in 1..(i - 1) : parts[j].inlineData = Null])
    ELSE Null

RECURSIVE ConcatText(_)
ConcatText(parts) ==
    IF parts = <<>> THEN <<>>
    ELSE (IF Head(parts).text = Null THEN <<>> ELSE Head(parts).text[1])
         \o ConcatText(Tail(parts))

\* response.text: the text parts of the first candidate joined, undefined without any
ResponseText(response) ==
    LET parts == FirstParts(response)
    IN  IF \E i \in 1..Len(parts) : parts[i].text # Null
        THEN Some(ConcatText(parts)) ELSE Null

\* the finish reason is examined before the parts are searched for an image
handleApiResponse_FinishBeforeImage(response, context) ==
    LET finishReason == IF response.candidates = <<>> THEN Null
                        ELSE response.candidates[1].finishReason
        imagePartFromResponse == FindImagePart(FirstParts(response))
    IN  IF response.promptFeedback.blockReason # Null
        THEN Err(<<"Request was blocked. Reason: ", response.promptFeedback.blockReason[1],
                   ". ">> \o response.promptFeedback.blockReasonMessage)
        ELSE IF finishReason # Null /\ finishReason # Some("STOP")
        THEN Err(<<"Image generation for ", context, " stopped unexpectedly. Reason: ",
                   finishReason[1], ". This often relates to safety settings.">>)
        ELSE IF imagePartFromResponse # Null
        THEN Ok(DataUrl(imagePartFromResponse[1].inlineData[1].mimeType,
                        imagePartFromResponse[1].inlineData[1].data))
        ELSE Err(<<"The AI model did not return an image for the ", context, ". ">>)

\* the parts are searched for an image before the block reason is examined
handleApiResponse_ImageBeforeBlock(response, context) ==
    LET finishReason == IF response.candidates = <<>> THEN Null
                        ELSE response.candidates[1].finishReason
        imagePartFromResponse == FindImagePart(FirstParts(response))
    IN  IF imagePartFromResponse # Null
        THEN Ok(DataUrl(imagePartFromResponse[1].inlineData[1].mimeType,
                        imagePartFromResponse[1].inlineData[1].data))
        ELSE IF response.promptFeedback.blockReason # Null
        THEN Err(<<"Request was blocked. Reason: ", response.promptFeedback.blockReason[1],
                   ". ">> \o response.promptFeedback.blockReasonMessage)
        ELSE IF finishReason # Null /\ finishReason # Some("STOP")
        THEN Err(<<"Image generation for ", context, " stopped unexpectedly. Reason: ",
                   finishReason[1], ". This often relates to safety settings.">>)
        ELSE Err(<<"The AI model did not return an image for the ", context, ". ">>)

handleApiResponse(response, context) ==
    IF response.promptFeedback.blockReason # Null
    THEN Err(<<"Request was blocked. Reason: ", response.promptFeedback.blockReason[1], ". ">>
             \o response.promptFeedback.blockReasonMessage)
    ELSE LET imagePartFromResponse == FindImagePart(FirstParts(response))
         IN  IF imagePartFromResponse # Null
             THEN Ok(DataUrl(imagePartFromResponse[1].inlineData[1].mimeType,
                             imagePartFromResponse[1].inlineData[1].data))
             ELSE LET finishReason ==
                          IF response.candidates = <<>> THEN Null
                          ELSE response.candidates[1].finishReason
                  IN  IF finishReason # Null /\ finishReason # Some("STOP")
                      THEN Err(<<"Image generation for ", context,
                                 " stopped unexpectedly. Reason: ", finishReason[1],
                                 ". This often relates to safety settings.">>)
                      ELSE LET text == ResponseText(response)
                               textFeedback == IF text = Null THEN <<>> ELSE Trim(text[1])
                           IN  IF textFeedback # <<>>
                               THEN Err(<<"The AI model did not return an image for the ",
                                          context, ". ", "The model responded with text: ">>
                                        \o textFeedback)
                               ELSE Err(<<"The AI model did not return an image for the ",
                                          context, ". ",
                                          "This can happen due to safety filters or if the request is too complex. Please try rephrasing your prompt to be more direct.">>)

(* ---- the service functions: what awaiting each one yields ---- *)
(* net is the outcome of reading the file and calling the model: Null when *)
(* fileToPart or generateContent rejects, Some(response) otherwise.        *)

NetOutcomes == {Null} \cup {Some(r) : r \in Responses}

ServiceRejected == Err(<<"NetworkOrServiceFailure">>)

generateEditedImage(net) ==
    IF net = Null THEN ServiceRejected ELSE handleApiResponse(net[1], "edit")

generateFilteredImage(net) ==
    IF net = Null THEN ServiceRejected ELSE handleApiResponse(net[1], "filter")

generateAdjustedImage(net) ==
    IF net = Null THEN ServiceRejected ELSE handleApiResponse(net[1], "adjustment")

generateEnhancedImage(net) ==
    IF net = Null THEN ServiceRejected ELSE handleApiResponse(net[1], "enhancement")

removeBackground(net) ==
    IF net = Null THEN ServiceRejected ELSE handleApiResponse(net[1], "background removal")

\* returns response.text as it is: Null (undefined) or Some(text)
extractTextFromImage(net) ==
    IF net = Null THEN ServiceRejected ELSE Ok(ResponseText(net[1]))

(* Face detection: the response text is JSON.  A text is modelled by whether *)
(* JSON.parse accepts it and by the value it parses to; coordinates are in   *)
(* tenths, so the range [0, 1] is 0..10, and a missing coordinate is Null.   *)

Box(x, y, w, h) == [x |-> x, y |-> y, width |-> w, height |-> h]

FaceLists ==
    { <<>>,
      <<Box(Some(1), Some(1), Some(2), Some(2))>>,
      <<Box(Some(1), Some(1), Some(2), Some(2)), Box(Some(15), Some(1), Some(1), Some(1))>>,
      <<Box(Some(0), Null, Some(10), Some(10))>> }

JsonDocs ==
    {[faces |-> Null, isArray |-> FALSE], [faces |-> Some(<<>>), isArray |-> FALSE]}
    \cup {[faces |-> Some(l), isArray |-> TRUE] : l \in FaceLists}

FaceTexts ==
    {[parses |-> FALSE, doc |-> [faces |-> Null, isArray |-> FALSE]]}
    \cup {[parses |-> TRUE, doc |-> d] : d \in JsonDocs}

\* Null: the call rejected; Some(Null): a response without text; Some(Some(t)): text t
FaceNetOutcomes == {Null, Some(Null)} \cup {Some(Some(t)) : t \in FaceTexts}

InUnitRange(c) == c # Null /\ c[1] >= 0 /\ c[1] <= 10

\* the comparisons are strict: a coordinate of exactly 0 or 1 is rejected
FaceInRange_BoundsExcluded(face) ==
    /\ face.x # Null /\ face.x[1] > 0 /\ face.x[1] < 10
    /\ face.y # Null /\ face.y[1] > 0 /\ face.y[1] < 10
    /\ face.width # Null /\ face.width[1] > 0 /\ face.width[1] < 10
    /\ face.height # Null /\ face.height[1] > 0 /\ face.height[1] < 10

FaceInRange(face) ==
    /\ InUnitRange(face.x)
    /\ InUnitRange(face.y)
    /\ InUnitRange(face.width)
    /\ InUnitRange(face.height)

InvalidFormat == Err(<<"The AI model returned an invalid format for face detection.">>)

\* the catch block returns [] instead of throwing
detectFaces_EmptyOnParseError(net) ==
    IF net = Null THEN ServiceRejected
    ELSE IF net[1] = Null THEN Ok(<<>>)
    ELSE IF ~net[1][1].parses THEN Ok(<<>>)
    ELSE LET result == net[1][1].doc
         IN  IF result.faces # Null /\ result.isArray
             THEN Ok(SelectSeq(result.faces[1], FaceInRange))
             ELSE Ok(<<>>)

detectFaces(net) ==
    IF net = Null THEN ServiceRejected
    ELSE IF net[1] = Null THEN InvalidFormat
    ELSE IF ~net[1][1].parses THEN InvalidFormat
    ELSE LET result == net[1][1].doc
         IN  IF result.faces # Null /\ result.isArray
             THEN Ok(SelectSeq(result.faces[1], FaceInRange))
             ELSE Ok(<<>>)

(* ---- the error line ---- *)
(* The error cell holds the class of the message shown, not its text: the  *)
(* messages of the early returns are InvalidInput, the messages built in   *)
(* the catch blocks are OperationFailed.                                   *)

InvalidInputMessages ==
    { "No image loaded to edit.",
      "Please enter a description for your edit.",
      "Please click on the image to select an area to edit.",
      "No image loaded to apply a filter to.",
      "No image loaded to apply an adjustment to.",
      "No image loaded to enhance.",
      "No image loaded to remove background from.",
      "No image loaded to extract text from.",
      "No image loaded to detect faces in.",
      "Image reference not found for resizing.",
      "Please upload a valid image file." }

setError(s, message) ==
    [s EXCEPT !.error = Some(IF message \in InvalidInputMessages
                             THEN "InvalidInput" ELSE "OperationFailed")]

(* ---- the async handlers ---- *)
(* XBegin(s) is handler X up to its await: the state it leaves and the call  *)
(* it issued (Null when it returned early).  XResume(s, op, ...) is the rest *)
(* of X, run when the awaited promise settles; op is the issued call, which  *)
(* carries what the handler's closure captured.  loadingMessage, a label of  *)
(* the spinner, is left out, and so is the text of the caught error that the *)
(* handlers append to their own message.                                     *)

Call(kind, s) == [kind |-> kind, history |-> s.history, historyIndex |-> s.historyIndex]

Returned(s) == [app |-> s, call |-> Null]

\* setError(null) is missing
Awaiting_KeepsError(s, kind) ==
    [app |-> [s EXCEPT !.isLoading = TRUE], call |-> Some(Call(kind, s))]

Awaiting(s, kind) ==
    [app |-> [s EXCEPT !.isLoading = TRUE, !.error = Null], call |-> Some(Call(kind, s))]

\* there is no finally block
Caught_StaysBusy(s, message) == setError(s, message)

\* catch (err) { setError(...) } finally { setIsLoading(false) }
Caught(s, message) == [setError(s, message) EXCEPT !.isLoading = FALSE]

\* the try block up to `new File`: the awaited data URL decoded
Decoded(awaited) == IF awaited.ok THEN dataURLtoFile(awaited.value) ELSE awaited

\* if (!prompt): a prompt of blanks passes
handleGenerateBegin_PromptNotTrimmed(s) ==
    IF currentImage(s) = Null
    THEN Returned(setError(s, "No image loaded to edit."))
    ELSE IF s.prompt = <<>>
    THEN Returned(setError(s, "Please enter a description for your edit."))
    ELSE IF s.editHotspot = Null
    THEN Returned(setError(s, "Please click on the image to select an area to edit."))
    ELSE Awaiting(s, "generate")

handleGenerateBegin(s) ==
    IF currentImage(s) = Null
    THEN Returned(setError(s, "No image loaded to edit."))
    ELSE IF Trim(s.prompt) = <<>>
    THEN Returned(setError(s, "Please enter a description for your edit."))
    ELSE IF s.editHotspot = Null
    THEN Returned(setError(s, "Please click on the image to select an area to edit."))
    ELSE Awaiting(s, "generate")

\* addImageToHistory runs whether or not the try block threw
handleGenerateResume_CommitsOnFailure(s, op, awaited, newImageFile) ==
    IF Decoded(awaited).ok
    THEN [addImageToHistory(s, op, newImageFile) EXCEPT !.editHotspot = Null,
                                                        !.displayHotspot = Null,
                                                        !.isLoading = FALSE]
    ELSE Caught(addImageToHistory(s, op, newImageFile), "Failed to generate the image.")

\* the two hotspot setters of the try block are left out
handleGenerateResume_KeepsFocusPoint(s, op, awaited, newImageFile) ==
    IF Decoded(awaited).ok
    THEN [addImageToHistory(s, op, newImageFile) EXCEPT !.isLoading = FALSE]
    ELSE Caught(s, "Failed to generate the image.")

handleGenerateResume(s, op, awaited, newImageFile) ==
    IF Decoded(awaited).ok
    THEN [addImageToHistory(s, op, newImageFile) EXCEPT !.editHotspot = Null,
                                                        !.displayHotspot = Null,
                                                        !.isLoading = FALSE]
    ELSE Caught(s, "Failed to generate the image.")

\* filterPrompt is handed to generateFilteredImage as it comes: neither function tests it
handleApplyFilterBegin(s, filterPrompt) ==
    IF currentImage(s) = Null
    THEN Returned(setError(s, "No image loaded to apply a filter to."))
    ELSE Awaiting(s, "filter")

handleApplyFilterResume(s, op, awaited, newImageFile) ==
    IF Decoded(awaited).ok
    THEN [addImageToHistory(s, op, newImageFile) EXCEPT !.isLoading = FALSE]
    ELSE Caught(s, "Failed to apply the filter.")

\* adjustmentPrompt is handed to generateAdjustedImage as it comes
handleApplyAdjustmentBegin(s, adjustmentPrompt) ==
    IF currentImage(s) = Null
    THEN Returned(setError(s, "No image loaded to apply an adjustment to."))
    ELSE Awaiting(s, "adjustment")

handleApplyAdjustmentResume(s, op, awaited, newImageFile) ==
    IF Decoded(awaited).ok
    THEN [addImageToHistory(s, op, newImageFile) EXCEPT !.isLoading = FALSE]
    ELSE Caught(s, "Failed to apply the adjustment.")

handleAutoEnhanceBegin(s) ==
    IF currentImage(s) = Null
    THEN Returned(setError(s, "No image loaded to enhance."))
    ELSE Awaiting(s, "enhance")

handleAutoEnhanceResume(s, op, awaited, newImageFile) ==
    IF Decoded(awaited).ok
    THEN [showToast(addImageToHistory(s, op, newImageFile), "Auto-Enhance successful")
            EXCEPT !.isLoading = FALSE]
    ELSE Caught(s, "Failed to enhance the image.")

\* setError(null) is left out before the call
handleRemoveBackgroundBegin_KeepsError(s) ==
    IF currentImage(s) = Null
    THEN Returned(setError(s, "No image loaded to remove background from."))
    ELSE Awaiting_KeepsError(s, "background")

handleRemoveBackgroundBegin(s) ==
    IF currentImage(s) = Null
    THEN Returned(setError(s, "No image loaded to remove background from."))
    ELSE Awaiting(s, "background")

\* the new file is built but not added to the history
handleRemoveBackgroundResume_NoAppend(s, op, awaited, newImageFile) ==
    IF Decoded(awaited).ok
    THEN [showToast(s, "Background removed successfully.") EXCEPT !.isLoading = FALSE]
    ELSE Caught(s, "Failed to remove background.")

handleRemoveBackgroundResume(s, op, awaited, newImageFile) ==
    IF Decoded(awaited).ok
    THEN [showToast(addImageToHistory(s, op, newImageFile), "Background removed successfully.")
            EXCEPT !.isLoading = FALSE]
    ELSE Caught(s, "Failed to remove background.")

handleExtractTextBegin(s) ==
    IF currentImage(s) = Null
    THEN Returned(setError(s, "No image loaded to extract text from."))
    ELSE Awaiting([s EXCEPT !.extractedText = <<>>], "ocr")

\* an undefined response.text is stored as the empty text
handleExtractTextResume(s, op, awaited) ==
    IF awaited.ok
    THEN LET text == IF awaited.value = Null THEN <<>> ELSE awaited.value[1]
             shown == [s EXCEPT !.extractedText = text, !.isLoading = FALSE]
         IN  IF text = <<>> THEN showToast(shown, "No text found in the image.") ELSE shown
    ELSE Caught(s, "Failed to extract text.")

handleDetectFacesBegin(s) ==
    IF currentImage(s) = Null
    THEN Returned(setError(s, "No image loaded to detect faces in."))
    ELSE Awaiting([s EXCEPT !.faces = <<>>], "faces")

handleDetectFacesResume(s, op, awaited) ==
    IF awaited.ok
    THEN [showToast([s EXCEPT !.faces = awaited.value],
                    "Found " \o ToString(Len(awaited.value)) \o " face(s).")
            EXCEPT !.isLoading = FALSE]
    ELSE Caught(s, "Failed to detect faces.")

(* Crop and resize work on a canvas.  canvas is Null when getContext('2d')  *)
(* returns null, Some(url) with the data URL toDataURL returns otherwise.   *)

CanvasOutcomes == {Null, Some(DataUrl("image/png", "QUJD")), Some(EmptyCanvasUrl)}

CropSelections == {[width |-> 0, height |-> 0], [width |-> 4, height |-> 3]}

getCroppedImg(canvas) ==
    IF canvas = Null THEN Err(<<"Failed to get canvas context">>) ELSE Ok(canvas[1])

\* imgRef.current is set whenever the editor is rendered, that is when there is an image
handleApplyCropBegin(s) ==
    IF /\ s.completedCrop # Null
       /\ s.completedCrop[1].width # 0
       /\ s.completedCrop[1].height # 0
       /\ currentImage(s) # Null
    THEN Awaiting(s, "crop")
    ELSE Returned(s)

\* the selection outlives the append
handleApplyCropResume_KeepsSelection(s, op, awaited, newImageFile) ==
    IF Decoded(awaited).ok
    THEN [addImageToHistory(s, op, newImageFile) EXCEPT !.isLoading = FALSE,
                                                        !.crop = s.crop,
                                                        !.completedCrop = s.completedCrop]
    ELSE Caught(s, "Failed to crop the image.")

handleApplyCropResume(s, op, awaited, newImageFile) ==
    IF Decoded(awaited).ok
    THEN [addImageToHistory(s, op, newImageFile) EXCEPT !.isLoading = FALSE]
    ELSE Caught(s, "Failed to crop the image.")

\* No await in this handler: it runs from setIsLoading(true) to the finally block
\* within the click, with the addImageToHistory of the current render.
handleApplyResize(s, canvas, newImageFile) ==
    IF currentImage(s) = Null
    THEN setError(s, "Image reference not found for resizing.")
    ELSE LET started == [s EXCEPT !.isLoading = TRUE, !.error = Null]
             drawn == IF canvas = Null THEN Err(<<"Could not get canvas context">>)
                      ELSE Ok(canvas[1])
         IN  IF Decoded(drawn).ok
             THEN [showToast(addImageToHistory(started, Call("resize", s), newImageFile),
                             "Resize successful")
                     EXCEPT !.isLoading = FALSE]
             ELSE Caught(started, "Failed to resize the image.")

\* handleFileSelect: files is Null, or Some(type of the first file)
handleFileSelect(s, files, file) ==
    IF files = Null THEN s
    ELSE IF files[1] = "image" THEN handleImageUpload(s, file)
    ELSE setError(s, "Please upload a valid image file.")

handleImageClick(s, point) ==
    IF s.activeTab # "retouch" \/ currentImage(s) = Null THEN s
    ELSE [s EXCEPT !.editHotspot = Some([x |-> 2 * point.x, y |-> 2 * point.y]),
                   !.displayHotspot = Some(point)]

(* ---- what the render enables ---- *)

\* the editor is rendered instead of the start screen
EditorRendered == mounted /\ currentImage(App) # Null

\* the start screen is rendered
StartScreenRendered == mounted /\ currentImage(App) = Null

\* the spinner overlay covers the image while loading, so it takes no click or drag
OverlayShown == isLoading

\* disabled={!canUndo}: the button works while an operation is outstanding
UndoDisabled_IgnoresLoading == ~canUndo(App)

UndoDisabled == ~canUndo(App) \/ isLoading

RedoDisabled == ~canRedo(App) \/ isLoading

\* the button has no disabled attribute
AutoEnhanceDisabled_Never == FALSE

AutoEnhanceDisabled == isLoading

TabDisabled(tab) == isLoading \/ (activeTab = "crop" /\ completedCrop # Null /\ tab # "crop")

PromptInputDisabled == isLoading \/ editHotspot = Null

GenerateDisabled == isLoading \/ Trim(prompt) = <<>> \/ editHotspot = Null

ResizeApplyDisabled == isLoading

DetectFacesDisabled == isLoading

RemoveBackgroundDisabled == isLoading

\* FilterPanel, AdjustmentPanel, CropPanel and ExtractTextPanel receive isLoading; their
\* buttons ignore a click while the orchestrator is busy.
FilterPanelDisabled == isLoading

AdjustmentPanelDisabled == isLoading

CropPanelDisabled == isLoading

ExtractTextPanelDisabled == isLoading

(* ---- inputs ---- *)

\* what the user can type into the retouch prompt, and what a panel can hand to
\* onApplyFilter or onApplyAdjustment
Prompts == {<<>>, <<" ">>, <<"a">>}

\* positions of a click inside the image, in display coordinates
ClickPoints == {[x |-> 1, y |-> 1]}

\* what a file selection hands to handleFileSelect: nothing, an image, another file
FileSelections == {Null, Some("image"), Some("text")}

(* ---- actions ---- *)

\* the state of App after its first render: every cell at its useState initial value
\* no toast yet: the Toast component is not rendered and no timeout is pending
ToastInit ==
    /\ now = 0
    /\ toastKey = Null
    /\ isVisible = FALSE
    /\ timers = {}
    /\ shows = 0
    /\ renders = 0

\* ExportModal after its first render with show false: the effect has run and has
\* returned the cleanup that revokes the download URL of that render, which is null
ExportInit ==
    /\ show = FALSE
    /\ format = "image/png"
    /\ quality = 90
    /\ downloadUrl = Null
    /\ estimatedSize = ""
    /\ isProcessing = FALSE
    /\ debounce = Null
    /\ effectCleanup = [kind |-> "revoke", downloadUrl |-> Null]
    /\ previews = <<>>
    /\ liveUrls = {}
    /\ nextUrl = 1

AppInit ==
    /\ history = InitialApp.history
    /\ historyIndex = InitialApp.historyIndex
    /\ prompt = InitialApp.prompt
    /\ isLoading = InitialApp.isLoading
    /\ error = InitialApp.error
    /\ editHotspot = InitialApp.editHotspot
    /\ displayHotspot = InitialApp.displayHotspot
    /\ activeTab = InitialApp.activeTab
    /\ toast = InitialApp.toast
    /\ extractedText = InitialApp.extractedText
    /\ faces = InitialApp.faces
    /\ crop = InitialApp.crop
    /\ completedCrop = InitialApp.completedCrop
    /\ objectUrls = [current |-> <<>>, original |-> <<>>]
    /\ mounted = TRUE
    /\ ToastInit
    /\ ExportInit

Init ==
    /\ AppInit
    /\ inflight = <<>>
    /\ nextFile = 1
    /\ apiResponse = Null
    /\ apiContext = "edit"
    /\ apiResult = Null
    /\ facesResponse = Null
    /\ facesResult = Null

\* a synchronous handler: state s after it, no call issued
Sync(s) == Commit(s) /\ UNCHANGED <<inflight, nextFile, sideVars>>

\* an async handler up to its await
Start(b) ==
    /\ b.call # Null => Len(inflight) < MaxInflight
    /\ Commit(b.app)
    /\ inflight' = inflight \o b.call
    /\ UNCHANGED <<nextFile, sideVars>>

Without(i) == SubSeq(inflight, 1, i - 1) \o SubSeq(inflight, i + 1, Len(inflight))

\* a handler that ends with an error issues its call again
Finish_RetriesOnFailure(i, s, made) ==
    /\ made => nextFile <= MaxFiles
    /\ Commit(s)
    /\ inflight' = IF s.error # Null THEN inflight ELSE Without(i)
    /\ nextFile' = IF made THEN nextFile + 1 ELSE nextFile
    /\ UNCHANGED sideVars

\* the continuation of suspended handler i, which built a File iff made
Finish(i, s, made) ==
    /\ made => nextFile <= MaxFiles
    /\ Commit(s)
    /\ inflight' = Without(i)
    /\ nextFile' = IF made THEN nextFile + 1 ELSE nextFile
    /\ UNCHANGED sideVars

SelectFile ==
    /\ StartScreenRendered
    /\ \E files \in FileSelections :
          /\ files = Some("image") => nextFile <= MaxFiles
          /\ Commit(handleFileSelect(App, files, nextFile))
          /\ nextFile' = IF files = Some("image") THEN nextFile + 1 ELSE nextFile
    /\ UNCHANGED <<inflight, sideVars>>

ClickUndo == EditorRendered /\ ~UndoDisabled /\ Sync(handleUndo(App))

ClickRedo == EditorRendered /\ ~RedoDisabled /\ Sync(handleRedo(App))

SelectTab ==
    /\ EditorRendered
    /\ \E tab \in Tabs : ~TabDisabled(tab) /\ Sync([App EXCEPT !.activeTab = tab])

ClickImage ==
    /\ EditorRendered /\ ~OverlayShown
    /\ \E point \in ClickPoints : Sync(handleImageClick(App, point))

TypePrompt ==
    /\ EditorRendered /\ activeTab = "retouch" /\ ~PromptInputDisabled
    /\ \E p \in Prompts : Sync([App EXCEPT !.prompt = p])

\* ReactCrop onChange
ChangeCrop ==
    /\ EditorRendered /\ activeTab = "crop" /\ ~OverlayShown
    /\ \E c \in CropSelections : Sync([App EXCEPT !.crop = Some(c)])

\* ReactCrop onComplete, at the end of a drag
CompleteCrop ==
    /\ EditorRendered /\ activeTab = "crop" /\ ~OverlayShown
    /\ crop # Null
    /\ Sync([App EXCEPT !.completedCrop = crop])

\* Toast onClose, from the toast's timer
CloseToast == mounted /\ toast # Null /\ Sync([App EXCEPT !.toast = Null])

ClickGenerate ==
    /\ EditorRendered /\ activeTab = "retouch" /\ ~GenerateDisabled
    /\ Start(handleGenerateBegin(App))

ClickApplyFilter ==
    /\ EditorRendered /\ activeTab = "filters" /\ ~FilterPanelDisabled
    /\ \E filterPrompt \in Prompts : Start(handleApplyFilterBegin(App, filterPrompt))

ClickApplyAdjustment ==
    /\ EditorRendered /\ activeTab = "adjust" /\ ~AdjustmentPanelDisabled
    /\ \E adjustmentPrompt \in Prompts :
          Start(handleApplyAdjustmentBegin(App, adjustmentPrompt))

ClickAutoEnhance ==
    /\ EditorRendered /\ ~AutoEnhanceDisabled
    /\ Start(handleAutoEnhanceBegin(App))

ClickApplyCrop ==
    /\ EditorRendered /\ activeTab = "crop" /\ ~CropPanelDisabled
    /\ Start(handleApplyCropBegin(App))

ClickApplyResize ==
    /\ EditorRendered /\ activeTab = "resize" /\ ~ResizeApplyDisabled
    /\ \E canvas \in CanvasOutcomes :
          LET made == canvas # Null /\ dataURLtoFile(canvas[1]).ok
          IN  /\ made => nextFile <= MaxFiles
              /\ Commit(handleApplyResize(App, canvas, nextFile))
              /\ nextFile' = IF made THEN nextFile + 1 ELSE nextFile
    /\ UNCHANGED <<inflight, sideVars>>

ClickExtractText ==
    /\ EditorRendered /\ activeTab = "extract-text" /\ ~ExtractTextPanelDisabled
    /\ Start(handleExtractTextBegin(App))

ClickDetectFaces ==
    /\ EditorRendered /\ activeTab = "face-detection" /\ ~DetectFacesDisabled
    /\ Start(handleDetectFacesBegin(App))

ClickRemoveBackground ==
    /\ EditorRendered /\ activeTab = "background" /\ ~RemoveBackgroundDisabled
    /\ Start(handleRemoveBackgroundBegin(App))

ResumeGenerate ==
    \E i \in 1..Len(inflight) : \E awaited \in {generateEditedImage(net) : net \in NetOutcomes} :
        /\ inflight[i].kind = "generate"
        /\ Finish(i, handleGenerateResume(App, inflight[i], awaited, nextFile),
                  Decoded(awaited).ok)

ResumeApplyFilter ==
    \E i \in 1..Len(inflight) : \E awaited \in {generateFilteredImage(net) : net \in NetOutcomes} :
        /\ inflight[i].kind = "filter"
        /\ Finish(i, handleApplyFilterResume(App, inflight[i], awaited, nextFile),
                  Decoded(awaited).ok)

ResumeApplyAdjustment ==
    \E i \in 1..Len(inflight) : \E awaited \in {generateAdjustedImage(net) : net \in NetOutcomes} :
        /\ inflight[i].kind = "adjustment"
        /\ Finish(i, handleApplyAdjustmentResume(App, inflight[i], awaited, nextFile),
                  Decoded(awaited).ok)

ResumeAutoEnhance ==
    \E i \in 1..Len(inflight) : \E awaited \in {generateEnhancedImage(net) : net \in NetOutcomes} :
        /\ inflight[i].kind = "enhance"
        /\ Finish(i, handleAutoEnhanceResume(App, inflight[i], awaited, nextFile),
                  Decoded(awaited).ok)

ResumeRemoveBackground ==
    \E i \in 1..Len(inflight) : \E awaited \in {removeBackground(net) : net \in NetOutcomes} :
        /\ inflight[i].kind = "background"
        /\ Finish(i, handleRemoveBackgroundResume(App, inflight[i], awaited, nextFile),
                  Decoded(awaited).ok)

ResumeApplyCrop ==
    \E i \in 1..Len(inflight) : \E awaited \in {getCroppedImg(canvas) : canvas \in CanvasOutcomes} :
        /\ inflight[i].kind = "crop"
        /\ Finish(i, handleApplyCropResume(App, inflight[i], awaited, nextFile),
                  Decoded(awaited).ok)

ResumeExtractText ==
    \E i \in 1..Len(inflight) : \E awaited \in {extractTextFromImage(net) : net \in NetOutcomes} :
        /\ inflight[i].kind = "ocr"
        /\ Finish(i, handleExtractTextResume(App, inflight[i], awaited), FALSE)

ResumeDetectFaces ==
    \E i \in 1..Len(inflight) : \E awaited \in {detectFaces(net) : net \in FaceNetOutcomes} :
        /\ inflight[i].kind = "faces"
        /\ Finish(i, handleDetectFacesResume(App, inflight[i], awaited), FALSE)

\* The component is torn down: the cleanup functions of its effects run.  What a
\* suspended handler does when it resumes afterwards has no effect on a component
\* that is gone, so the handlers are dropped with it.
Unmount ==
    /\ mounted
    /\ mounted' = FALSE
    /\ objectUrls' = [current |-> ObjectUrlCleanup(objectUrls.current, currentImage(App)),
                      original |-> ObjectUrlCleanup(objectUrls.original, originalImage(App))]
    /\ inflight' = <<>>
    /\ UNCHANGED <<appVars, nextFile, sideVars>>

Next ==
    \/ SelectFile
    \/ ClickUndo
    \/ ClickRedo
    \/ SelectTab
    \/ ClickImage
    \/ TypePrompt
    \/ ChangeCrop
    \/ CompleteCrop
    \/ CloseToast
    \/ ClickGenerate
    \/ ClickApplyFilter
    \/ ClickApplyAdjustment
    \/ ClickAutoEnhance
    \/ ClickApplyCrop
    \/ ClickApplyResize
    \/ ClickExtractText
    \/ ClickDetectFaces
    \/ ClickRemoveBackground
    \/ ResumeGenerate
    \/ ResumeApplyFilter
    \/ ResumeApplyAdjustment
    \/ ResumeAutoEnhance
    \/ ResumeRemoveBackground
    \/ ResumeApplyCrop
    \/ ResumeExtractText
    \/ ResumeDetectFaces
    \/ Unmount

Spec == Init /\ [][Next]_vars

(* ---- the response validator on its own: every response, every context ---- *)

ValidatorInit ==
    /\ AppInit
    /\ inflight = <<>>
    /\ nextFile = 1
    /\ apiResponse \in {Some(r) : r \in Responses}
    /\ apiContext \in Contexts
    /\ apiResult = Null
    /\ facesResponse = Null
    /\ facesResult = Null

Validate ==
    /\ apiResponse # Null /\ apiResult = Null
    /\ apiResult' = Some(handleApiResponse(apiResponse[1], apiContext))
    /\ UNCHANGED <<appVars, inflight, nextFile, apiResponse, apiContext,
                   facesResponse, facesResult, lifeVars, widgetVars>>

SpecValidator == ValidatorInit /\ [][Validate]_vars

(* ---- the parsing of the face detection answer on its own ---- *)

\* a coordinate of a parsed face: missing, below 0, 0, 1, above 1 (in tenths)
Coordinates == {Null, Some(-1), Some(0), Some(10), Some(11)}

ParsedBoxes == {Box(x, y, w, h) : x \in Coordinates, y \in Coordinates,
                                  w \in Coordinates, h \in Coordinates}

\* the boxes that the longer lists are made of
ListedBoxes ==
    { Box(Some(0), Some(0), Some(10), Some(10)),
      Box(Some(10), Some(0), Some(0), Some(10)),
      Box(Some(0), Some(11), Some(10), Some(10)) }

DetectorFaceLists ==
    {<<b>> : b \in ParsedBoxes} \cup {<<a, b, c>> : a \in ListedBoxes, b \in ListedBoxes,
                                                    c \in ListedBoxes}

\* the answers detectFaces is run on: those of the editor and a JSON document for
\* each of the lists above
DetectorOutcomes ==
    FaceNetOutcomes
    \cup {Some(Some([parses |-> TRUE, doc |-> [faces |-> Some(l), isArray |-> TRUE]])) :
             l \in DetectorFaceLists}

DetectorInit ==
    /\ AppInit
    /\ inflight = <<>>
    /\ nextFile = 1
    /\ apiResponse = Null
    /\ apiContext = "edit"
    /\ apiResult = Null
    /\ facesResponse \in {Some(n) : n \in DetectorOutcomes}
    /\ facesResult = Null

Detect ==
    /\ facesResponse # Null /\ facesResult = Null
    /\ facesResult' = Some(detectFaces(facesResponse[1]))
    /\ UNCHANGED <<appVars, inflight, nextFile, apiResponse, apiContext, apiResult,
                   facesResponse, lifeVars, widgetVars>>

SpecDetector == DetectorInit /\ [][Detect]_vars

(* ---- the Toast component on its own: its effect and its timeouts ---- *)

\* duration = 2000
ToastDuration == 2000

\* setTimeout(() => setIsVisible(true), 10)
FadeInDelay == 10

\* setTimeout(onClose, 300)
FadeOutDelay == 300

\* the messages of handleUndo and handleRedo
Messages == {"Undo successful", "Redo successful"}

\* the time in milliseconds from the last event to the user's next one
UserDelays == {100, 2100}

MaxShows == 2

MaxRenders == 1

\* a timeout set by the Toast instance with key key, to fire at time due
Timer(kind, key, due) == [kind |-> kind, key |-> key, due |-> due]

\* the effect's cleanup: clearTimeout(fadeInTimer); clearTimeout(lifeTimer)
ToastCleanup(ts, key) == {t \in ts : ~(t.key = key /\ t.kind \in {"fadeIn", "life"})}

\* the effect's body, run at time at for a message that is not null
ToastEffect(ts, key, at) ==
    ts \cup {Timer("fadeIn", key, at + FadeInDelay), Timer("life", key, at + ToastDuration)}

\* d milliseconds pass without a timeout falling due before
Elapsed(d) == (\A t \in timers : t.due >= now + d) /\ now' = now + d

\* timeout t is the next one to fire
Due(t) == (\A u \in timers : t.due <= u.due) /\ now' = (IF t.due > now THEN t.due ELSE now)

\* showToast: the key is new, so the Toast shown is unmounted and a new one is
\* mounted with isVisible false, and its effect runs
ShowToast ==
    /\ mounted /\ shows < MaxShows
    /\ \E d \in UserDelays : \E message \in Messages :
          /\ Elapsed(d)
          /\ Commit(showToast(App, message))
          /\ toastKey' = Some(now')
          /\ isVisible' = FALSE
          /\ timers' = ToastEffect(IF toastKey = Null THEN timers
                                   ELSE ToastCleanup(timers, toastKey[1]), now', now')
    /\ shows' = shows + 1
    /\ UNCHANGED <<renders, inflight, nextFile, apiVars, exportVars>>

\* App renders again for another reason: onClose is a new function, so the effect of
\* the Toast shown is cleaned up and run again
RenderToast ==
    /\ mounted /\ toast # Null /\ renders < MaxRenders
    /\ \E d \in UserDelays :
          /\ Elapsed(d)
          /\ timers' = ToastEffect(ToastCleanup(timers, toastKey[1]), toastKey[1], now')
    /\ renders' = renders + 1
    /\ UNCHANGED <<appVars, lifeVars, toastKey, isVisible, shows, inflight, nextFile, apiVars, exportVars>>

\* the fade-in timeout: setIsVisible(true)
FadeInFires ==
    /\ \E t \in timers :
          /\ t.kind = "fadeIn" /\ Due(t)
          /\ timers' = timers \ {t}
    /\ isVisible' = TRUE
    /\ UNCHANGED <<appVars, lifeVars, toastKey, shows, renders, inflight, nextFile, apiVars, exportVars>>

\* the life timeout: setIsVisible(false); setTimeout(onClose, 300)
LifeTimerFires ==
    /\ \E t \in timers :
          /\ t.kind = "life" /\ Due(t)
          /\ timers' = (timers \ {t}) \cup {Timer("close", t.key, now' + FadeOutDelay)}
    /\ isVisible' = FALSE
    /\ UNCHANGED <<appVars, lifeVars, toastKey, shows, renders, inflight, nextFile, apiVars, exportVars>>

\* the close timeout: onClose is () => setToast(null); if a toast is shown, it is
\* unmounted and its cleanup runs
CloseFires ==
    /\ \E t \in timers :
          /\ t.kind = "close" /\ Due(t)
          /\ IF toast = Null
             THEN /\ timers' = timers \ {t}
                  /\ UNCHANGED <<appVars, lifeVars, toastKey, isVisible>>
             ELSE /\ Commit([App EXCEPT !.toast = Null])
                  /\ toastKey' = Null
                  /\ isVisible' = FALSE
                  /\ timers' = ToastCleanup(timers \ {t}, toastKey[1])
    /\ UNCHANGED <<shows, renders, inflight, nextFile, apiVars, exportVars>>

NextToast == ShowToast \/ RenderToast \/ FadeInFires \/ LifeTimerFires \/ CloseFires

SpecToast == Init /\ [][NextToast]_vars

(* ---- the ExportModal component on its own, for an image file that is not null ---- *)

Formats == {"image/png", "image/jpeg"}

Qualities == {90, 50}

MaxPreviews == 2

MaxUrls == 4

\* canvas.getContext('2d'): a context or null
ContextOutcomes == {"context", "null"}

\* the argument of the toBlob callback: a blob or null
BlobOutcomes == {"blob", "null"}

ObjectUrl(kind, id) == [kind |-> kind, id |-> id]

\* what does not belong to ExportModal
notExportVars == <<appVars, inflight, nextFile, apiVars, lifeVars, toastVars>>

\* the effect's cleanup function, as returned by its last run
RunEffectCleanup ==
    IF effectCleanup.kind = "timer"
    THEN [debounce |-> Null, downloadUrl |-> downloadUrl, liveUrls |-> liveUrls]
    ELSE IF effectCleanup.downloadUrl # Null
    THEN [debounce |-> debounce, downloadUrl |-> Null,
          liveUrls |-> liveUrls \ {ObjectUrl("download", effectCleanup.downloadUrl[1])}]
    ELSE [debounce |-> debounce, downloadUrl |-> downloadUrl, liveUrls |-> liveUrls]

\* One of show, format and quality has changed: the cleanup of the last run, then
\* the effect's body in the render with the new values.  The generatePreview that
\* the timeout will call is that render's, with that render's downloadUrl.
RunEffect(newShow) ==
    /\ liveUrls' = RunEffectCleanup.liveUrls
    /\ downloadUrl' = RunEffectCleanup.downloadUrl
    /\ IF newShow
       THEN /\ debounce' = Some([downloadUrl |-> downloadUrl])
            /\ effectCleanup' = [kind |-> "timer", downloadUrl |-> Null]
       ELSE /\ debounce' = RunEffectCleanup.debounce
            /\ effectCleanup' = [kind |-> "revoke", downloadUrl |-> downloadUrl]

\* the Export button of App: setIsExportModalOpen(true)
OpenExport ==
    /\ ~show
    /\ show' = TRUE
    /\ RunEffect(TRUE)
    /\ UNCHANGED <<format, quality, estimatedSize, isProcessing, previews, nextUrl,
                   notExportVars>>

\* Cancel, or a click on the backdrop: onClose
CloseExport ==
    /\ show
    /\ show' = FALSE
    /\ RunEffect(FALSE)
    /\ UNCHANGED <<format, quality, estimatedSize, isProcessing, previews, nextUrl,
                   notExportVars>>

\* the format select's onChange
SelectFormat ==
    /\ show
    /\ \E f \in Formats \ {format} : format' = f
    /\ RunEffect(TRUE)
    /\ UNCHANGED <<show, quality, estimatedSize, isProcessing, previews, nextUrl,
                   notExportVars>>

\* the quality slider's onChange; the slider is rendered for JPEG and WebP
SetQuality ==
    /\ show /\ format # "image/png"
    /\ \E q \in Qualities \ {quality} : quality' = q
    /\ RunEffect(TRUE)
    /\ UNCHANGED <<show, format, estimatedSize, isProcessing, previews, nextUrl,
                   notExportVars>>

\* the debounce timeout fires: generatePreview up to the assignment of image.src
DebounceFires ==
    /\ debounce # Null
    /\ Len(previews) < MaxPreviews /\ nextUrl <= MaxUrls
    /\ isProcessing' = TRUE
    /\ liveUrls' = liveUrls \cup {ObjectUrl("image", nextUrl)}
    /\ previews' = Append(previews, [downloadUrl |-> debounce[1].downloadUrl,
                                      objectUrl |-> nextUrl, stage |-> "load"])
    /\ nextUrl' = nextUrl + 1
    /\ debounce' = Null
    /\ UNCHANGED <<show, format, quality, downloadUrl, estimatedSize, effectCleanup,
                   notExportVars>>

WithoutPreview(i) == SubSeq(previews, 1, i - 1) \o SubSeq(previews, i + 1, Len(previews))

\* image.onload: without a context it returns; with one it draws, asks for the blob
\* and revokes the object URL of the file
ImageLoads ==
    /\ \E i \in 1..Len(previews) : \E ctx \in ContextOutcomes :
          /\ previews[i].stage = "load"
          /\ IF ctx = "null"
             THEN /\ previews' = WithoutPreview(i)
                  /\ UNCHANGED liveUrls
             ELSE /\ previews' = [previews EXCEPT ![i].stage = "blob"]
                  /\ liveUrls' = liveUrls \ {ObjectUrl("image", previews[i].objectUrl)}
    /\ UNCHANGED <<show, format, quality, downloadUrl, estimatedSize, isProcessing, debounce,
                   effectCleanup, nextUrl, notExportVars>>

\* image.onerror
ImageFails ==
    /\ \E i \in 1..Len(previews) :
          /\ previews[i].stage = "load"
          /\ previews' = WithoutPreview(i)
    /\ isProcessing' = FALSE
    /\ estimatedSize' = "Error"
    /\ UNCHANGED <<show, format, quality, downloadUrl, debounce, effectCleanup, liveUrls,
                   nextUrl, notExportVars>>

\* the toBlob callback; downloadUrl in it is the one of the render whose
\* generatePreview this is
BlobReady ==
    /\ \E i \in 1..Len(previews) : \E blob \in BlobOutcomes :
          /\ previews[i].stage = "blob"
          /\ previews' = WithoutPreview(i)
          /\ IF blob = "blob"
             THEN /\ nextUrl <= MaxUrls
                  /\ liveUrls' =
                        (IF previews[i].downloadUrl # Null
                         THEN liveUrls \ {ObjectUrl("download", previews[i].downloadUrl[1])}
                         ELSE liveUrls) \cup {ObjectUrl("download", nextUrl)}
                  /\ downloadUrl' = Some(nextUrl)
                  /\ estimatedSize' = "size"
                  /\ nextUrl' = nextUrl + 1
             ELSE UNCHANGED <<liveUrls, downloadUrl, estimatedSize, nextUrl>>
    /\ isProcessing' = FALSE
    /\ UNCHANGED <<show, format, quality, debounce, effectCleanup, notExportVars>>

\* the Download button's disabled expression
DownloadDisabled == downloadUrl = Null \/ isProcessing

NextExport ==
    \/ OpenExport \/ CloseExport \/ SelectFormat \/ SetQuality
    \/ DebounceFires \/ ImageLoads \/ ImageFails \/ BlobReady

SpecExport == Init /\ [][NextExport]_vars

(***************************************************************************)
(* Properties                                                              *)
(***************************************************************************)

\* a File has been built: the first one by the upload, every later one by an edit
Uploaded == nextFile > 1

\* this step built a File and appended it to the history of an image already loaded
AppendStep == EditorRendered /\ nextFile' = nextFile + 1

\* this step is the continuation of suspended handler i
FinishStep(i) == i \in 1..Len(inflight) /\ inflight' = Without(i)

\* C1: once an image has been uploaded, the history is never empty and historyIndex
\* is a valid index into it, whatever edits, undos and redos follow.
C1_IndexInBounds ==
    Uploaded => /\ Len(history) >= 1
                /\ 0 <= historyIndex
                /\ historyIndex <= Len(history) - 1

\* C1 witness: three artifacts, and a redo after two undos has put the position at 1
C1_Witness ==
    /\ Len(history) = 3
    /\ historyIndex = 1
    /\ toast = Some("Redo successful")

\* C2: an append made at position p of history h leaves h[0..p] followed by the new
\* file, positioned on it: the entries after p are gone.
C2_AppendTruncates ==
    [][AppendStep =>
          /\ history' = SubSeq(history, 1, historyIndex + 1) \o <<nextFile>>
          /\ historyIndex' = historyIndex + 1
          /\ historyIndex' = Len(history') - 1]_vars

\* C2 witness: from [1] append 2, undo, append 3 has given [1, 3] at position 1
C2_Witness ==
    /\ history = <<1, 3>>
    /\ historyIndex = 1

\* C3: handleUndo at position 0 and handleRedo at the last position return the state
\* they were given: history, position, OCR text, face list and toast are untouched.
C3_NoOpAtEnds ==
    /\ historyIndex = 0 => handleUndo(App) = App
    /\ historyIndex = Len(history) - 1 => handleRedo(App) = App

\* C3 witness: a single artifact with OCR text and faces cached and no toast on
\* screen, where both handlers leave everything as it is
C3_Witness ==
    /\ Len(history) = 1
    /\ historyIndex = 0
    /\ extractedText # <<>>
    /\ faces # <<>>
    /\ toast = Null
    /\ handleUndo(App) = App
    /\ handleRedo(App) = App

\* C4: an undo moves the position by exactly -1 and a redo by exactly +1, neither
\* changes the sequence of artifacts, and a redo right after an undo is back at the
\* same position and artifact.
C4_UndoRedoMoveOnly ==
    /\ [][/\ ClickUndo => (history' = history /\ historyIndex' = historyIndex - 1)
          /\ ClickRedo => (history' = history /\ historyIndex' = historyIndex + 1)]_vars
    /\ [](canUndo(App) =>
            /\ handleRedo(handleUndo(App)).history = history
            /\ handleRedo(handleUndo(App)).historyIndex = historyIndex
            /\ currentImage(handleRedo(handleUndo(App))) = currentImage(App))

\* C4 witness: a redo has just been made and the position is back on the last of
\* two or more artifacts
C4_Witness ==
    /\ Len(history) >= 2
    /\ historyIndex = Len(history) - 1
    /\ toast = Some("Redo successful")
    /\ extractedText = <<>>

\* C5: canUndo holds exactly when the position is above 0, canRedo exactly when it is
\* below the last index, and right after an upload or an append canRedo is false.
C5_CanUndoCanRedo ==
    /\ [](/\ canUndo(App) <=> historyIndex > 0
          /\ canRedo(App) <=> historyIndex < Len(history) - 1)
    /\ [][nextFile' # nextFile => ~canRedo(App)']_vars

\* C5 witness: an enhance has just appended the third artifact
C5_Witness ==
    /\ Len(history) = 3
    /\ historyIndex = 2
    /\ toast = Some("Auto-Enhance successful")
    /\ canUndo(App)
    /\ ~canRedo(App)

\* C6: once there is an image, index 0 of the history keeps holding the same file.
C6_OriginalKept ==
    [][history # <<>> => (history' # <<>> /\ history'[1] = history[1])]_vars

\* C6 witness: two edits were appended and undone, the original is current again
C6_Witness ==
    /\ history = <<1, 2, 3>>
    /\ historyIndex = 0
    /\ originalImage(App) = currentImage(App)

\* C7: handleImageUpload(file), in whatever state it is called, leaves the history
\* [file] at position 0 with no undo and no redo, and clears the error, the focus
\* point, the crop selection, the OCR text and the face list.
C7_UploadResets ==
    \A file \in 1..(MaxFiles + 1) :
        LET u == handleImageUpload(App, file)
        IN  /\ u.history = <<file>>
            /\ u.historyIndex = 0
            /\ ~canUndo(u) /\ ~canRedo(u)
            /\ u.error = Null
            /\ u.editHotspot = Null /\ u.displayHotspot = Null
            /\ u.crop = Null /\ u.completedCrop = Null
            /\ u.extractedText = <<>>
            /\ u.faces = <<>>

\* C7 witness: a state with everything the upload has to clear (an undone edit, an
\* error, a focus point, a crop selection, OCR text, faces), and what it makes of it
C7_Witness ==
    /\ Len(history) >= 2 /\ historyIndex < Len(history) - 1
    /\ error # Null
    /\ editHotspot # Null
    /\ completedCrop # Null
    /\ extractedText # <<>>
    /\ faces # <<>>
    /\ handleImageUpload(App, nextFile).history = <<nextFile>>
    /\ handleImageUpload(App, nextFile).faces = <<>>

\* C8: a step in which an operation fails (the continuation of a suspended handler,
\* or a resize, that ends with an error) leaves history and historyIndex as they are,
\* and as they were when the operation started.
C8_FailureKeepsHistory ==
    [][(/\ (\E i \in 1..Len(inflight) : FinishStep(i)) \/ ClickApplyResize
        /\ error' # Null)
       => /\ history' = history
          /\ historyIndex' = historyIndex
          /\ \A i \in 1..Len(inflight) :
                FinishStep(i) => /\ history' = inflight[i].history
                                 /\ historyIndex' = inflight[i].historyIndex]_vars

\* C8 witness: an operation started at position 0 of two artifacts has failed
C8_Witness ==
    /\ error = Some("OperationFailed")
    /\ ~isLoading
    /\ inflight = <<>>
    /\ Len(history) = 2
    /\ historyIndex = 0

ValidatedHasImage ==
    apiResult # Null /\ FindImagePart(FirstParts(apiResponse[1])) # Null

\* the data URL of the first image part of the validated response
ValidatedImageUrl ==
    LET part == FindImagePart(FirstParts(apiResponse[1]))[1].inlineData[1]
    IN  DataUrl(part.mimeType, part.data)

\* C10 as stated: handleApiResponse returns the image whenever the response has an
\* image part, whatever the finish reason and the block reason.
C10_ImageAlwaysWins ==
    ValidatedHasImage => apiResult[1] = Ok(ValidatedImageUrl)

\* C10 amended: handleApiResponse returns the image whenever the response has an image
\* part and no block reason, whatever the finish reason and the text; with a block
\* reason set it throws the blocked error although an image part is present.
C10_ImageWinsUnlessBlocked ==
    ValidatedHasImage =>
        IF apiResponse[1].promptFeedback.blockReason = Null
        THEN apiResult[1] = Ok(ValidatedImageUrl)
        ELSE /\ ~apiResult[1].ok
             /\ apiResult[1].error[1] = "Request was blocked. Reason: "

\* C10 witness: an image part with finish reason SAFETY and no block reason was
\* validated and the image returned
C10_Witness ==
    /\ ValidatedHasImage
    /\ apiResponse[1].promptFeedback.blockReason = Null
    /\ apiResponse[1].candidates[1].finishReason = Some("SAFETY")
    /\ apiResult[1].ok

\* the block reason of the validated response (Null when there is none)
ValidatedBlockReason == apiResponse[1].promptFeedback.blockReason

\* the finish reason of the first candidate of the validated response
ValidatedFinishReason ==
    IF apiResponse[1].candidates = <<>> THEN Null
    ELSE apiResponse[1].candidates[1].finishReason

\* the text of the validated response without its leading and trailing blanks
ValidatedText ==
    IF ResponseText(apiResponse[1]) = Null THEN <<>> ELSE Trim(ResponseText(apiResponse[1])[1])

\* the last n tokens of message m
Suffix(m, n) == SubSeq(m, Len(m) - n + 1, Len(m))

\* C11: handleApiResponse decides by the first rule that matches, in this order:
\* a block reason gives the blocked error with the reason and the message, whatever
\* else the response carries; else an image part gives its data URL; else a finish
\* reason other than STOP gives the stopped error naming it; else the no-image error,
\* which ends with the trimmed text when the response has text that is not blank.
C11_FirstMatchingRule ==
    apiResult # Null =>
        LET res == apiResult[1]
        IN  IF ValidatedBlockReason # Null
            THEN /\ ~res.ok
                 /\ res.error[1] = "Request was blocked. Reason: "
                 /\ res.error[2] = ValidatedBlockReason[1]
                 /\ SubSeq(res.error, 4, Len(res.error))
                        = apiResponse[1].promptFeedback.blockReasonMessage
            ELSE IF FindImagePart(FirstParts(apiResponse[1])) # Null
            THEN /\ res.ok
                 /\ res.value = ValidatedImageUrl
            ELSE IF ValidatedFinishReason # Null /\ ValidatedFinishReason[1] # "STOP"
            THEN /\ ~res.ok
                 /\ res.error[1] = "Image generation for "
                 /\ res.error[2] = apiContext
                 /\ res.error[4] = ValidatedFinishReason[1]
            ELSE /\ ~res.ok
                 /\ res.error[1] = "The AI model did not return an image for the "
                 /\ res.error[2] = apiContext
                 /\ IF ValidatedText # <<>>
                    THEN /\ res.error[4] = "The model responded with text: "
                         /\ Suffix(res.error, Len(ValidatedText)) = ValidatedText
                         /\ Len(res.error) = 4 + Len(ValidatedText)
                    ELSE Len(res.error) = 4

\* C11 witness: a response with a block reason, a block message, text and no image
\* was validated, and the blocked error carries the reason and the message
C11_Witness ==
    /\ apiResult # Null
    /\ ValidatedBlockReason = Some("OTHER")
    /\ FindImagePart(FirstParts(apiResponse[1])) = Null
    /\ ValidatedText # <<>>
    /\ ~apiResult[1].ok
    /\ apiResult[1].error = <<"Request was blocked. Reason: ", "OTHER", ". ",
                              "blocked by policy">>

\* the answer given to detectFaces parsed to an object whose faces member is a list
ParsedFaceList ==
    /\ facesResponse # Null
    /\ facesResponse[1] # Null
    /\ facesResponse[1][1] # Null
    /\ facesResponse[1][1][1].parses
    /\ facesResponse[1][1][1].doc.faces # Null
    /\ facesResponse[1][1][1].doc.isArray

\* a coordinate is there and lies in [0, 1]
CoordinateOk(c) == c # Null /\ 0 <= c[1] /\ c[1] <= 10

\* the positions of list l whose four coordinates are all in [0, 1]
KeptPositions(l) ==
    {i \in 1..Len(l) : /\ CoordinateOk(l[i].x) /\ CoordinateOk(l[i].y)
                       /\ CoordinateOk(l[i].width) /\ CoordinateOk(l[i].height)}

\* the k-th smallest member of the set of positions K
KthPosition(K, k) == CHOOSE i \in K : Cardinality({j \in K : j < i}) = k - 1

UnparsableAnswers ==
    {net \in FaceNetOutcomes : net # Null /\ (net[1] = Null \/ ~net[1][1].parses)}

\* C13: for an answer without text or with text that is not JSON, detectFaces throws
\* the invalid-format error, and handleDetectFaces, resumed with it, ends not busy with
\* an error message, an empty face list and no "Found n face(s)" toast.
C13_UnparsableIsError ==
    \A i \in 1..Len(inflight) :
        inflight[i].kind = "faces" =>
            \A net \in UnparsableAnswers :
                LET awaited == detectFaces(net)
                    after == handleDetectFacesResume(App, inflight[i], awaited)
                IN  /\ ~awaited.ok
                    /\ awaited.error
                          = <<"The AI model returned an invalid format for face detection.">>
                    /\ after.error # Null
                    /\ after.faces = <<>>
                    /\ ~after.isLoading
                    /\ after.toast = toast

\* C13 witness: a face detection is outstanding, and an answer without text ends it
\* with the error line set and no faces
C13_Witness ==
    /\ Len(inflight) = 1
    /\ inflight[1].kind = "faces"
    /\ isLoading
    /\ error = Null
    /\ Some(Null) \in UnparsableAnswers
    /\ ~detectFaces(Some(Null)).ok
    /\ handleDetectFacesResume(App, inflight[1], detectFaces(Some(Null))).error
          = Some("OperationFailed")
    /\ handleDetectFacesResume(App, inflight[1], detectFaces(Some(Null))).faces = <<>>

\* C14: handleGenerate, invoked with no image, or with a prompt that is empty or all
\* blanks, or with no focus point, sets an error message and returns: it issues no
\* call, it does not touch isLoading, and history and historyIndex stay.
C14_RetouchInputChecked ==
    (currentImage(App) = Null \/ Trim(prompt) = <<>> \/ editHotspot = Null) =>
        LET b == handleGenerateBegin(App)
        IN  /\ b.call = Null
            /\ b.app.error = Some("InvalidInput")
            /\ b.app.isLoading = isLoading
            /\ b.app.history = history
            /\ b.app.historyIndex = historyIndex

\* C14 witness: an image and a focus point are there and the prompt is one blank;
\* handleGenerate returns with the error set and no call
C14_Witness ==
    /\ currentImage(App) # Null
    /\ editHotspot # Null
    /\ prompt = <<" ">>
    /\ ~isLoading
    /\ error = Null
    /\ handleGenerateBegin(App).call = Null
    /\ handleGenerateBegin(App).app.error = Some("InvalidInput")
    /\ ~handleGenerateBegin(App).app.isLoading

\* C15 as stated: handleApplyFilter and handleApplyAdjustment, invoked with a prompt
\* that is empty or all blanks, issue no service call.
C15_EmptyTextNotSent ==
    \A p \in Prompts :
        Trim(p) = <<>> =>
            /\ handleApplyFilterBegin(App, p).call = Null
            /\ handleApplyAdjustmentBegin(App, p).call = Null

\* C15 witness of the divergence: with an image loaded and nothing in flight, a filter
\* with the empty prompt sets the busy flag and issues its call, with no error shown
C15_EmptyTextSent ==
    /\ currentImage(App) # Null
    /\ ~isLoading
    /\ handleApplyFilterBegin(App, <<>>).call # Null
    /\ handleApplyFilterBegin(App, <<>>).app.isLoading
    /\ handleApplyFilterBegin(App, <<>>).app.error = Null
    /\ handleApplyAdjustmentBegin(App, <<" ">>).call # Null

\* C16 as stated: every append to the history, whichever operation made it, leaves
\* the focus point null, the OCR text empty and the face list empty.
C16_AppendClearsTransient ==
    [][AppendStep => /\ editHotspot' = Null
                     /\ displayHotspot' = Null
                     /\ extractedText' = <<>>
                     /\ faces' = <<>>]_vars

\* C16 witness of the divergence: a filter is outstanding while a focus point is set,
\* and the append that ends it clears the OCR text and the faces but keeps the point
C16_FocusPointKept ==
    /\ Len(inflight) = 1
    /\ inflight[1].kind = "filter"
    /\ editHotspot # Null
    /\ displayHotspot # Null
    /\ LET after == handleApplyFilterResume(App, inflight[1],
                                             Ok(DataUrl("image/png", "QUJD")), nextFile)
       IN  /\ Len(after.history) = Len(history) + 1
           /\ after.editHotspot = editHotspot
           /\ after.displayHotspot = displayHotspot
           /\ after.extractedText = <<>>
           /\ after.faces = <<>>

\* the ways suspended handler i can end: for each value or error its awaited promise
\* can settle with, the state the handler leaves and whether its try block completed
Settlements(i) ==
    LET op == inflight[i]
        Image(results, resume(_)) ==
            {[after |-> resume(a), ok |-> Decoded(a).ok] : a \in results}
        Plain(results, resume(_)) ==
            {[after |-> resume(a), ok |-> a.ok] : a \in results}
        Gen(a) == handleGenerateResume(App, op, a, nextFile)
        Fil(a) == handleApplyFilterResume(App, op, a, nextFile)
        Adj(a) == handleApplyAdjustmentResume(App, op, a, nextFile)
        Enh(a) == handleAutoEnhanceResume(App, op, a, nextFile)
        Bgr(a) == handleRemoveBackgroundResume(App, op, a, nextFile)
        Crp(a) == handleApplyCropResume(App, op, a, nextFile)
        Ocr(a) == handleExtractTextResume(App, op, a)
        Fac(a) == handleDetectFacesResume(App, op, a)
    IN  CASE op.kind = "generate" ->
               Image({generateEditedImage(net) : net \in NetOutcomes}, Gen)
          [] op.kind = "filter" ->
               Image({generateFilteredImage(net) : net \in NetOutcomes}, Fil)
          [] op.kind = "adjustment" ->
               Image({generateAdjustedImage(net) : net \in NetOutcomes}, Adj)
          [] op.kind = "enhance" ->
               Image({generateEnhancedImage(net) : net \in NetOutcomes}, Enh)
          [] op.kind = "background" ->
               Image({removeBackground(net) : net \in NetOutcomes}, Bgr)
          [] op.kind = "crop" ->
               Image({getCroppedImg(canvas) : canvas \in CanvasOutcomes}, Crp)
          [] op.kind = "ocr" ->
               Plain({extractTextFromImage(net) : net \in NetOutcomes}, Ocr)
          [] op.kind = "faces" ->
               Plain({detectFaces(net) : net \in FaceNetOutcomes}, Fac)

\* the ways a click on Apply in the resize panel can end (the handler has no await)
ResizeSettlements ==
    {[after |-> handleApplyResize(App, canvas, nextFile),
      ok |-> canvas # Null /\ dataURLtoFile(canvas[1]).ok] : canvas \in CanvasOutcomes}

\* what each handler leaves when it is invoked now and gets past its early returns
Beginnings ==
    {b \in {handleGenerateBegin(App), handleApplyFilterBegin(App, <<"a">>),
            handleApplyAdjustmentBegin(App, <<"a">>), handleAutoEnhanceBegin(App),
            handleRemoveBackgroundBegin(App), handleExtractTextBegin(App),
            handleDetectFacesBegin(App), handleApplyCropBegin(App)} : b.call # Null}

ImageKinds == {"generate", "filter", "adjustment", "enhance", "background", "crop"}

\* C17: an operation that has set the busy flag resets it when its call or canvas
\* step settles, however it settles: it ends with isLoading false and no error when
\* its try block completed, and with isLoading false and an error message otherwise.
C17_BusyEnds ==
    /\ \A i \in 1..Len(inflight) : \A o \in Settlements(i) :
          /\ ~o.after.isLoading
          /\ o.ok => o.after.error = Null
          /\ ~o.ok => o.after.error = Some("OperationFailed")
    /\ \A b \in Beginnings : b.app.isLoading
    /\ EditorRendered =>
          \A o \in ResizeSettlements :
              /\ ~o.after.isLoading
              /\ o.ok => o.after.error = Null
              /\ ~o.ok => o.after.error = Some("OperationFailed")

\* C17 witness: an enhance is outstanding with the busy flag set; it can end with
\* success and it can end with failure
C17_Witness ==
    /\ Len(inflight) = 1
    /\ inflight[1].kind = "enhance"
    /\ isLoading
    /\ \E o \in Settlements(1) : o.ok /\ ~o.after.isLoading /\ o.after.error = Null
    /\ \E o \in Settlements(1) : ~o.ok /\ ~o.after.isLoading /\ o.after.error # Null

\* C18: a handler that gets past its early returns clears the error before it issues
\* its call, so the error is null whenever an operation is outstanding, and it is
\* null after an operation that succeeded.
C18_ErrorCleared ==
    /\ inflight # <<>> => error = Null
    /\ \A b \in Beginnings : b.app.error = Null
    /\ \A i \in 1..Len(inflight) : \A o \in Settlements(i) : o.ok => o.after.error = Null
    /\ EditorRendered => \A o \in ResizeSettlements : o.ok => o.after.error = Null

\* C18 witness: the error of a failed operation is shown, and starting a text
\* extraction from this state issues its call with the error cleared
C18_Witness ==
    /\ error = Some("OperationFailed")
    /\ ~isLoading
    /\ inflight = <<>>
    /\ handleExtractTextBegin(App).call # Null
    /\ handleExtractTextBegin(App).app.error = Null
    /\ handleExtractTextBegin(App).app.isLoading

\* C19: an image-producing operation that succeeds leaves the history it started from
\* up to its position followed by one new artifact, which is current (length = old
\* position + 2, position = old position + 1); a text extraction or face detection
\* that succeeds leaves history and historyIndex as they are.
C19_OneArtifactPerSuccess ==
    /\ \A i \in 1..Len(inflight) : \A o \in Settlements(i) :
          o.ok =>
            IF inflight[i].kind \in ImageKinds
            THEN /\ Len(o.after.history) = historyIndex + 2
                 /\ o.after.historyIndex = historyIndex + 1
                 /\ o.after.history = SubSeq(history, 1, historyIndex + 1) \o <<nextFile>>
                 /\ currentImage(o.after) = Some(nextFile)
                 /\ historyIndex = inflight[i].historyIndex
            ELSE /\ o.after.history = history
                 /\ o.after.historyIndex = historyIndex
    /\ EditorRendered =>
          \A o \in ResizeSettlements :
              o.ok => /\ Len(o.after.history) = historyIndex + 2
                      /\ o.after.historyIndex = historyIndex + 1
                      /\ currentImage(o.after) = Some(nextFile)

\* C19 witness: a background removal started at position 0 of two artifacts is
\* outstanding and can succeed
C19_Witness ==
    /\ Len(inflight) = 1
    /\ inflight[1].kind = "background"
    /\ Len(history) = 2
    /\ historyIndex = 0
    /\ \E o \in Settlements(1) : o.ok /\ Len(o.after.history) = 2 /\ o.after.historyIndex = 1

\* C20: while the component is mounted, the only object URL alive for the current
\* image is the one of the file that is current now, and the same for the original:
\* the URL of a file that stopped being current or original has been revoked.  After
\* the component was torn down no URL is alive.
C20_ObjectUrlsReleased ==
    /\ Len(objectUrls.current) <= 1
    /\ Len(objectUrls.original) <= 1
    /\ mounted => /\ objectUrls.current = currentImage(App)
                  /\ objectUrls.original = originalImage(App)
    /\ ~mounted => /\ objectUrls.current = <<>>
                   /\ objectUrls.original = <<>>

\* C20 witness: after two edits and two undos the first file is current again, with
\* one URL alive for it as the current image and one as the original
C20_Witness ==
    /\ mounted
    /\ history = <<1, 2, 3>>
    /\ historyIndex = 0
    /\ toast = Some("Undo successful")
    /\ objectUrls = [current |-> <<1>>, original |-> <<1>>]


\* a click that invokes one of the handlers with a service call or a canvas step
UserInvokes ==
    \/ ClickGenerate \/ ClickApplyFilter \/ ClickApplyAdjustment \/ ClickAutoEnhance
    \/ ClickApplyCrop \/ ClickExtractText \/ ClickDetectFaces \/ ClickRemoveBackground

\* an operation ends in this step: the busy flag goes from set to reset
OperationEnds == isLoading /\ ~isLoading'

\* C21: a step issues at most one call, only a step in which the user invokes a
\* handler issues one, and the step in which an operation ends, failed or not, takes
\* its call away and issues none: nothing is retried.
C21_NoAutomaticRetry ==
    [][/\ Len(inflight') <= Len(inflight) + 1
       /\ Len(inflight') > Len(inflight) => UserInvokes
       /\ OperationEnds => Len(inflight') = Len(inflight) - 1
       /\ (OperationEnds /\ error' # Null) => inflight' = <<>>]_vars

\* C21 witness: a filter has failed on the only artifact; no call is outstanding
C21_Witness ==
    /\ mounted
    /\ activeTab = "filters"
    /\ error = Some("OperationFailed")
    /\ Len(history) = 1
    /\ inflight = <<>>
    /\ ~isLoading


\* the state after handleUndo, and after handleRedo, was invoked twice from the
\* render of the present state
UndoneTwice == handleUndoInRender(App, handleUndoInRender(App, App))
RedoneTwice == handleRedoInRender(App, handleRedoInRender(App, App))

ImageOf(i) == currentImage(inflight[i])

\* suspended handler i, of the given kind, resumes in this step and the image it was
\* invoked on is the current one after the step
CacheFilledBy(i, kind) ==
    /\ inflight[i].kind = kind
    /\ inflight' = Without(i)
    /\ ImageOf(i) = currentImage(App)'

ParsedWithoutFaceList ==
    /\ facesResponse # Null
    /\ facesResponse[1] # Null
    /\ facesResponse[1][1] # Null
    /\ facesResponse[1][1][1].parses
    /\ \/ facesResponse[1][1][1].doc.faces = Null
       \/ ~facesResponse[1][1][1].doc.isArray

\* C25 as stated: an answer that parses as JSON but has no faces list makes
\* detectFaces throw the invalid-format error, as unparsable text does.
C25_MissingListIsError ==
    (facesResult # Null /\ ParsedWithoutFaceList) =>
        /\ ~facesResult[1].ok
        /\ facesResult[1] = InvalidFormat

\* C25 witness of the divergence: the answer parsed to an object without a faces
\* member and detectFaces returned the empty list
C25_MissingListIsEmpty ==
    /\ facesResult # Null
    /\ ParsedWithoutFaceList
    /\ facesResponse[1][1][1].doc.faces = Null
    /\ facesResult[1] = Ok(<<>>)


\* C26: a retouch that fails leaves prompt, editHotspot and displayHotspot as they
\* were, whether it fails in its input checks or in its service call; a retouch that
\* succeeds leaves both hotspots null, so that Generate is disabled and a further
\* handleGenerate returns in its input checks without a call.
C26_RetouchInput ==
    /\ \A i \in 1..Len(inflight) : inflight[i].kind = "generate" =>
          \A o \in Settlements(i) :
              /\ ~o.ok => /\ o.after.prompt = prompt
                          /\ o.after.editHotspot = editHotspot
                          /\ o.after.displayHotspot = displayHotspot
              /\ o.ok => /\ o.after.editHotspot = Null
                         /\ o.after.displayHotspot = Null
                         /\ o.after.isLoading \/ Trim(o.after.prompt) = <<>>
                                \/ o.after.editHotspot = Null
                         /\ handleGenerateBegin(o.after).call = Null
    /\ handleGenerateBegin(App).call = Null =>
          /\ handleGenerateBegin(App).app.prompt = prompt
          /\ handleGenerateBegin(App).app.editHotspot = editHotspot
          /\ handleGenerateBegin(App).app.displayHotspot = displayHotspot

\* C26 witness: a retouch with a prompt and a focus point is outstanding; it can fail
\* and it can succeed
C26_Witness ==
    /\ Len(inflight) = 1
    /\ inflight[1].kind = "generate"
    /\ Trim(prompt) # <<>>
    /\ editHotspot # Null /\ displayHotspot # Null
    /\ \E o \in Settlements(1) : ~o.ok /\ o.after.editHotspot = editHotspot
    /\ \E o \in Settlements(1) : o.ok /\ o.after.editHotspot = Null


\* what each handler does when it returns at one of its input checks, without a call
ValidationFailures ==
    {b.app : b \in {b \in {handleGenerateBegin(App), handleApplyFilterBegin(App, <<"a">>),
                            handleApplyAdjustmentBegin(App, <<"a">>),
                            handleAutoEnhanceBegin(App), handleRemoveBackgroundBegin(App),
                            handleExtractTextBegin(App), handleDetectFacesBegin(App)} :
                       b.call = Null}}
        \cup {handleFileSelect(App, Some("other"), nextFile)}
        \cup (IF currentImage(App) = Null
              THEN {handleApplyResize(App, Null, nextFile)} ELSE {})

\* C27: the busy flag and an error message never hold together, and a handler that
\* returns at an input check with an error message leaves the busy flag as it was.
C27_BusyExcludesError ==
    /\ isLoading => error = Null
    /\ \A after \in ValidationFailures :
          /\ after.error # Null
          /\ after.isLoading = isLoading
          /\ ~isLoading => ~after.isLoading

\* C27 witness: the error of a failed operation is shown with the busy flag down,
\* and a background removal started from there would raise the flag and clear it
C27_Witness ==
    /\ EditorRendered
    /\ error = Some("OperationFailed")
    /\ ~isLoading
    /\ handleRemoveBackgroundBegin(App).call # Null
    /\ handleRemoveBackgroundBegin(App).app.isLoading
    /\ handleRemoveBackgroundBegin(App).app.error = Null
    /\ handleGenerateBegin(App).call = Null
    /\ handleGenerateBegin(App).app.error = Some("InvalidInput")


\* the tab buttons' disabled expression, for the cells of s
TabLocked(s, tab) ==
    s.isLoading \/ (s.activeTab = "crop" /\ s.completedCrop # Null /\ tab # "crop")

\* the states a click on Apply crop leads to when the canvas step succeeds, the user
\* having first dragged a selection with an area if the completed one has none
CropsApplied ==
    LET area == [width |-> 4, height |-> 3]
        drawn == IF completedCrop[1].width # 0 /\ completedCrop[1].height # 0
                 THEN App
                 ELSE [App EXCEPT !.crop = Some(area), !.completedCrop = Some(area)]
        begun == handleApplyCropBegin(drawn)
    IN  IF begun.call = Null THEN {}
        ELSE {handleApplyCropResume(begun.app, begun.call[1], getCroppedImg(canvas), nextFile) :
                 canvas \in {c \in CanvasOutcomes : Decoded(getCroppedImg(c)).ok}}

\* C28: on the crop tab and not busy, the other tabs are disabled exactly when a
\* completed selection exists, and the tab is left only without one; from every
\* state with a completed selection a crop can be applied, and a successful crop
\* leaves crop and completedCrop null and every tab selectable; a busy editor has an
\* operation outstanding, which ends with the busy flag down however it settles.
C28_CropTabNoTrap ==
    /\ [][(activeTab = "crop" /\ activeTab' # "crop") =>
              (completedCrop = Null /\ ~isLoading)]_vars
    /\ []((EditorRendered /\ activeTab = "crop" /\ ~isLoading) =>
              \A tab \in Tabs \ {"crop"} : TabDisabled(tab) <=> completedCrop # Null)
    /\ []((EditorRendered /\ activeTab = "crop" /\ completedCrop # Null /\ ~isLoading) =>
              /\ CropsApplied # {}
              /\ \A after \in CropsApplied :
                    /\ after.crop = Null /\ after.completedCrop = Null
                    /\ \A tab \in Tabs : ~TabLocked(after, tab))
    /\ []((EditorRendered /\ activeTab = "crop" /\ completedCrop # Null /\ isLoading) =>
              /\ inflight # <<>>
              /\ \A i \in 1..Len(inflight) : \A o \in Settlements(i) :
                    /\ ~o.after.isLoading
                    /\ (inflight[i].kind = "crop" /\ o.ok) =>
                          /\ o.after.completedCrop = Null
                          /\ \A tab \in Tabs : ~TabLocked(o.after, tab))

\* C28 witness: on the crop tab with a completed selection a crop is outstanding,
\* and its success leaves the selection cleared and the tabs selectable
C28_Witness ==
    /\ EditorRendered /\ activeTab = "crop" /\ completedCrop # Null
    /\ Len(inflight) = 1 /\ inflight[1].kind = "crop"
    /\ \A tab \in Tabs \ {"crop"} : TabDisabled(tab)
    /\ \E o \in Settlements(1) :
          o.ok /\ o.after.completedCrop = Null /\ \A tab \in Tabs : ~TabLocked(o.after, tab)

\* C28 witness of the other case: the completed selection has no area, the tabs
\* are disabled, and Apply crop does nothing until a selection is dragged
C28_EmptySelection ==
    /\ EditorRendered /\ activeTab = "crop" /\ ~isLoading
    /\ completedCrop = Some([width |-> 0, height |-> 0])
    /\ handleApplyCropBegin(App).call = Null
    /\ CropsApplied # {}


\* the toast shown is removed at this step
ToastRemoved == toast # Null /\ toast' = Null

\* C29 as stated: a toast is removed only by the close timeout of its own Toast
\* instance, and not before its duration and the fade-out have passed since it
\* was shown.
C29_OwnTimersOnly ==
    [][ToastRemoved =>
          /\ now' >= toastKey[1] + ToastDuration + FadeOutDelay
          /\ \E t \in timers \ timers' : t.kind = "close" /\ t.key = toastKey[1]]_vars

\* C29 witness of the divergence: a toast is shown while the close timeout of an
\* earlier toast is pending, due before the duration of the one shown has passed
C29_EarlierClosePending ==
    /\ toast # Null
    /\ \E t \in timers :
          /\ t.kind = "close" /\ t.key < toastKey[1]
          /\ t.due < toastKey[1] + ToastDuration


\* the download URLs that are live
LiveDownloads == {u \in liveUrls : u.kind = "download"}

\* C30 as stated: a generatePreview run that ends leaves isProcessing false, so that
\* isProcessing is true only while a run is under way; and a download URL that is
\* replaced is revoked, so that at most one download URL is live.
C30_PreviewEndsAndRevokes ==
    /\ [][Len(previews') < Len(previews) => ~isProcessing']_vars
    /\ [](isProcessing => previews # <<>>)
    /\ [](Cardinality(LiveDownloads) <= 1)

\* C30 witness of the first divergence: the modal is shown with a download URL,
\* nothing is pending, and isProcessing is true: the Download button stays disabled
C30_StuckProcessing ==
    /\ show /\ downloadUrl # Null
    /\ isProcessing /\ DownloadDisabled
    /\ previews = <<>> /\ debounce = Null

\* C30, the second divergence: two download URLs are live, one of them replaced
C30_ReplacedUrlLive ==
    /\ show /\ downloadUrl # Null
    /\ \E u \in LiveDownloads : u.id # downloadUrl[1]

\* C30, its first part on its own
C30_PreviewEnds == [][Len(previews') < Len(previews) => ~isProcessing']_vars

\* C30, its second part on its own
C30_OneLiveDownload == Cardinality(LiveDownloads) <= 1

====
